---- MODULE Spec2Model ----
(***************************************************************************)
(* A model of src/ts/tabWindow.ts: the immutable records TabItem and       *)
(* TabWindow, their derived accessors, lookups and update operations.      *)
(*                                                                         *)
(* JavaScript values are represented as follows.                           *)
(*   - null, where a record is expected (savedState, openState, tabItems), *)
(*     is the record Null;                                                 *)
(*   - a primitive that may be null/undefined (expanded, _title, _id, a    *)
(*     lookup result) is a tuple: None for null/undefined, <<v>> for v;    *)
(*   - an Immutable.List is the record [list |-> <<...>>];                 *)
(*   - the outcome of a call is Return(v) or ThrowError(name).             *)
(* Fields that no method of the file reads (bookmarkIndex, openTabIndex,   *)
(* favIconUrl, audible, isSuspended, windowType, width, height, snapshot,  *)
(* chromeSessionId) are left out of the records.                           *)
(***************************************************************************)
EXTENDS Integers, Sequences, FiniteSets, TLC

VARIABLES item, heap, ret, last

vars == <<item, heap, ret, last>>

Null == [null |-> TRUE]

None == <<>>

Some(v) == <<v>>

Return(v) == [kind |-> "return", value |-> v]

ThrowError(name) == [kind |-> "throw", value |-> name]

\* The record of the last call: the operation, the heap index of its receiver
\* (0 for a TabItem), its argument, its outcome, the diagnostic it logged and
\* the receiver as it was before the call.
Call(op, recv, arg, result, log, pre) ==
    [op |-> op, recv |-> recv, arg |-> arg, result |-> result, log |-> log, pre |-> pre]

NoCall == Call("none", 0, None, Return(None), "none", None)

(***************************************************************************)
(* Bounds                                                                  *)
(***************************************************************************)
\* The longest tab list of a window that lookups and title reads are made on.
MaxItems == 2

\* The longest tab list of a window that is updated, and of a list given to
\* setTabItems.
MaxUpdateItems == 1

(***************************************************************************)
(* Input domains                                                           *)
(***************************************************************************)
TabIds == {1, 2}

BookmarkIds == {"b1", "b2"}

SavedTitles == {"Saved A", "Saved B"}

SavedTabStates ==
    {[bookmarkId |-> b, title |-> "bookmark " \o b, url |-> "http://saved/" \o b] :
        b \in {"b1"}}

OpenTabStates ==
    {[openTabId |-> id, active |-> a, pinned |-> p,
      title |-> "tab " \o ToString(id), url |-> "http://open/" \o ToString(id)] :
        id \in TabIds, a \in BOOLEAN, p \in BOOLEAN}

\* Every value the TabItem constructor accepts over these states.
TabItems ==
    [saved : BOOLEAN, savedState : SavedTabStates \cup {Null},
     open : BOOLEAN, openState : OpenTabStates \cup {Null}]

(***************************************************************************)
(* TabItem                                                                 *)
(***************************************************************************)
defaultTabItemProps ==
    [saved |-> FALSE, savedState |-> Null, open |-> FALSE, openState |-> Null]

\* JavaScript truthiness of an object-or-null.
Truthy(v) == v # Null

ItemTitlePrefersSaved(t) ==
    IF t.savedState # Null THEN t.savedState.title
    ELSE IF t.open /\ Truthy(t.openState) THEN t.openState.title ELSE ""

ItemTitle(t) ==
    IF t.open /\ Truthy(t.openState) THEN t.openState.title
    ELSE IF Truthy(t.savedState) THEN t.savedState.title ELSE ""

ItemUrl(t) ==
    IF t.open /\ Truthy(t.openState) THEN t.openState.url
    ELSE IF Truthy(t.savedState) THEN t.savedState.url ELSE ""

ItemPinned(t) ==
    IF t.open /\ Truthy(t.openState) THEN t.openState.pinned ELSE FALSE

ItemActive(t) ==
    IF t.open /\ Truthy(t.openState) THEN t.openState.active ELSE FALSE

safeSavedState(t) ==
    IF t.saved /\ Truthy(t.savedState) THEN Return(t.savedState)
    ELSE ThrowError("Error")

safeOpenState(t) ==
    IF t.open /\ Truthy(t.openState) THEN Return(t.openState)
    ELSE ThrowError("Error")

\* new TabItem(props): Immutable.Record stores the given fields as they are.
NewTabItem(props) ==
    /\ item' = props
    /\ last' = Call("new TabItem", 0, None, Return(None), "none", None)
    /\ UNCHANGED <<heap, ret>>

\* One read of all four derived fields of the item.
ReadDerived ==
    /\ last' = Call("derived", 0, None,
                    Return([title |-> ItemTitle(item), url |-> ItemUrl(item),
                            pinned |-> ItemPinned(item), active |-> ItemActive(item)]),
                    "none", None)
    /\ UNCHANGED <<item, heap, ret>>

ReadSafeSavedState ==
    /\ last' = Call("safeSavedState", 0, None, safeSavedState(item), "none", None)
    /\ UNCHANGED <<item, heap, ret>>

ReadSafeOpenState ==
    /\ last' = Call("safeOpenState", 0, None, safeOpenState(item), "none", None)
    /\ UNCHANGED <<item, heap, ret>>

InitItem ==
    /\ item = defaultTabItemProps
    /\ heap = <<>>
    /\ ret = 0
    /\ last = NoCall

NextItem ==
    \/ \E props \in TabItems : NewTabItem(props)
    \/ ReadDerived
    \/ ReadSafeSavedState
    \/ ReadSafeOpenState

SpecItem == InitItem /\ [][NextItem]_vars

(***************************************************************************)
(* TabItem claims, checked under SpecItem                                  *)
(***************************************************************************)
\* C3 (as claimed): every TabItem the constructor yields has
\* saved = (savedState is not null) and open = (openState is not null), and is
\* never (not saved, not open).
C3_DualStateInvariant ==
    last.op = "new TabItem" =>
        /\ item.saved = (item.savedState # Null)
        /\ item.open = (item.openState # Null)
        /\ item.saved \/ item.open

List(s) == [list |-> s]

Range(s) == {s[i] : i \in DOMAIN s}

SeqsUpTo(S, n) == UNION {[1..k -> S] : k \in 0..n}

defaultTabWindowProps ==
    [saved |-> FALSE, savedTitle |-> "", savedFolderId |-> "",
     open |-> FALSE, openWindowId |-> -1, tabItems |-> List(<<>>), expanded |-> None]

\* new TabWindow(props): the given fields over the defaults; the private slots
\* _title and _id of a new object are undefined.
NewTabWindow(props) ==
    props @@ defaultTabWindowProps @@ [_title |-> None, _id |-> None]

\* The first of the indices S of a list (those whose item a find, findEntry or
\* indexOf predicate accepts), 0 when there is none.
FirstIndex(S) ==
    IF S = {} THEN 0 ELSE CHOOSE i \in S : \A j \in S : i <= j

\* tabItems.find(t => t.open && t.openState!.active), scanning from index i:
\* reading .active of a null openState throws a TypeError.
RECURSIVE FindActiveTab(_, _)
FindActiveTab(items, i) ==
    IF i > Len(items) THEN Return(None)
    ELSE IF ~items[i].open THEN FindActiveTab(items, i + 1)
    ELSE IF items[i].openState = Null THEN ThrowError("TypeError")
    ELSE IF items[i].openState.active THEN Return(Some(items[i]))
    ELSE FindActiveTab(items, i + 1)

IsOpen(t) == t.open

computeTitleIgnoresSaved(w) ==
    IF w.tabItems = Null THEN ThrowError("TypeError")
    ELSE LET items == w.tabItems.list
             activeTab == FindActiveTab(items, 1)
             openTabItem == FirstIndex({i \in 1..Len(items) : IsOpen(items[i])})
         IN  IF activeTab.kind = "throw" THEN activeTab
             ELSE IF activeTab.value = None
                  THEN IF openTabItem = 0 THEN Return("")
                       ELSE Return(ItemTitle(items[openTabItem]))
             ELSE Return(ItemTitle(activeTab.value[1]))

computeTitle(w) ==
    IF w.saved THEN Return(w.savedTitle)
    ELSE IF w.tabItems = Null THEN ThrowError("TypeError")
    ELSE LET items == w.tabItems.list
             activeTab == FindActiveTab(items, 1)
             openTabItem == FirstIndex({i \in 1..Len(items) : IsOpen(items[i])})
         IN  IF activeTab.kind = "throw" THEN activeTab
             ELSE IF activeTab.value = None
                  THEN IF openTabItem = 0 THEN Return("")
                       ELSE Return(ItemTitle(items[openTabItem]))
             ELSE Return(ItemTitle(activeTab.value[1]))

\* The diagnostic computeTitle logs: a warning when no active tab is found.
computeTitleLog(w) ==
    IF w.saved \/ w.tabItems = Null THEN "none"
    ELSE IF FindActiveTab(w.tabItems.list, 1) = Return(None) THEN "warn" ELSE "none"

\* get title(): the memoized slot when it is set, computeTitle() otherwise.
TitleGet(w) ==
    IF w._title = None THEN computeTitle(w) ELSE Return(w._title[1])

\* The object after get title(): the slot is filled when computeTitle returned.
TitleGetPost(w) ==
    IF w._title = None /\ computeTitle(w).kind = "return"
    THEN [w EXCEPT !._title = Some(computeTitle(w).value)]
    ELSE w

IdGet(w) ==
    IF w._id # None THEN Return(w._id[1])
    ELSE IF w.saved THEN Return("_saved" \o w.savedFolderId)
    ELSE Return("_open" \o ToString(w.openWindowId))

findChromeTabIdIgnoresOpen(w, tabId) ==
    IF w.tabItems = Null THEN ThrowError("TypeError")
    ELSE LET items == w.tabItems.list
             Match(ti) == ti.openState # Null /\ ti.openState.openTabId = tabId
             i == FirstIndex({k \in 1..Len(items) : Match(items[k])})
         IN  IF i = 0 THEN Return(None) ELSE Return(<<i - 1, items[i]>>)

findChromeTabId(w, tabId) ==
    IF w.tabItems = Null THEN ThrowError("TypeError")
    ELSE LET items == w.tabItems.list
             Match(ti) == ti.open /\ ti.openState # Null /\ ti.openState.openTabId = tabId
             i == FirstIndex({k \in 1..Len(items) : Match(items[k])})
         IN  IF i = 0 THEN Return(None) ELSE Return(<<i - 1, items[i]>>)

findChromeBookmarkId(w, bookmarkId) ==
    IF w.tabItems = Null THEN ThrowError("TypeError")
    ELSE LET items == w.tabItems.list
             Match(ti) ==
                 ti.saved /\ ti.savedState # Null /\ ti.savedState.bookmarkId = bookmarkId
             i == FirstIndex({k \in 1..Len(items) : Match(items[k])})
         IN  IF i = 0 THEN Return(None) ELSE Return(<<i - 1, items[i]>>)

getActiveTabId(w) ==
    IF w.tabItems = Null THEN ThrowError("TypeError")
    ELSE LET activeTab == FindActiveTab(w.tabItems.list, 1)
         IN  IF activeTab.kind = "throw" THEN activeTab
             ELSE IF activeTab.value = None THEN Return(None)
             ELSE Return(Some(activeTab.value[1].openState.openTabId))

\* List.indexOf: the 0-based position of the first equal item, -1 when absent.
indexOf(w, target) ==
    IF w.tabItems = Null THEN ThrowError("TypeError")
    ELSE LET Match(ti) == ti = target
             items == w.tabItems.list
         IN  Return(FirstIndex({k \in 1..Len(items) : Match(items[k])}) - 1)

\* JavaScript a && b on booleans.
JsAnd(a, b) == IF a THEN b ELSE a

isExpandedIgnoresOpen(w, expandAll) ==
    IF w.expanded = None THEN expandAll ELSE w.expanded[1]

isExpanded(w, expandAll) ==
    IF w.expanded = None THEN JsAnd(expandAll, w.open) ELSE w.expanded[1]

(***************************************************************************)
(* Reads of a window on the heap                                           *)
(***************************************************************************)
ReadTitle(i) ==
    /\ i \in 1..Len(heap)
    /\ heap' = [heap EXCEPT ![i] = TitleGetPost(heap[i])]
    /\ last' = Call("title", i, None, TitleGet(heap[i]),
                    IF heap[i]._title = None THEN computeTitleLog(heap[i]) ELSE "none",
                    heap[i])
    /\ UNCHANGED <<item, ret>>

ReadId(i) ==
    /\ i \in 1..Len(heap)
    /\ heap' = [heap EXCEPT ![i]._id = Some(IdGet(heap[i]).value)]
    /\ last' = Call("id", i, None, IdGet(heap[i]), "none", heap[i])
    /\ UNCHANGED <<item, ret>>

FindChromeTabId(i, tabId) ==
    /\ i \in 1..Len(heap)
    /\ last' = Call("findChromeTabId", i, tabId, findChromeTabId(heap[i], tabId),
                    "none", heap[i])
    /\ UNCHANGED <<item, heap, ret>>

FindChromeBookmarkId(i, bookmarkId) ==
    /\ i \in 1..Len(heap)
    /\ last' = Call("findChromeBookmarkId", i, bookmarkId,
                    findChromeBookmarkId(heap[i], bookmarkId), "none", heap[i])
    /\ UNCHANGED <<item, heap, ret>>

GetActiveTabId(i) ==
    /\ i \in 1..Len(heap)
    /\ last' = Call("getActiveTabId", i, None, getActiveTabId(heap[i]), "none", heap[i])
    /\ UNCHANGED <<item, heap, ret>>

IndexOf(i, target) ==
    /\ i \in 1..Len(heap)
    /\ last' = Call("indexOf", i, target, indexOf(heap[i], target), "none", heap[i])
    /\ UNCHANGED <<item, heap, ret>>

IsExpanded(i, expandAll) ==
    /\ i \in 1..Len(heap)
    /\ last' = Call("isExpanded", i, expandAll, Return(isExpanded(heap[i], expandAll)),
                    "none", heap[i])
    /\ UNCHANGED <<item, heap, ret>>

(***************************************************************************)
(* Lookups and title resolution over one window                            *)
(***************************************************************************)
\* The items windows are built from: the saved flag follows savedState, the
\* open flag and openState vary freely, no tab is pinned.
WinItems ==
    {t \in TabItems :
        /\ t.saved = (t.savedState # Null)
        /\ t.openState # Null => ~t.openState.pinned}

LookupWindows ==
    {NewTabWindow([saved |-> s, savedTitle |-> st, tabItems |-> List(items)]) :
        s \in BOOLEAN, st \in SavedTitles, items \in SeqsUpTo(WinItems, MaxItems)}

InitLookup ==
    /\ item = defaultTabItemProps
    /\ heap \in {<<w>> : w \in LookupWindows}
    /\ ret = 0
    /\ last = NoCall

NextLookup ==
    \/ ReadTitle(1)
    \/ \E tabId \in TabIds \cup {99} : FindChromeTabId(1, tabId)
    \/ \E bookmarkId \in BookmarkIds : FindChromeBookmarkId(1, bookmarkId)
    \/ GetActiveTabId(1)
    \/ \E target \in Range(heap[1].tabItems.list) \cup {defaultTabItemProps} :
          IndexOf(1, target)

SpecLookup == InitLookup /\ [][NextLookup]_vars

(***************************************************************************)
(* Lookup and title claims, checked under SpecLookup                       *)
(***************************************************************************)
IsOpenActive(t) == t.open /\ t.openState # Null /\ t.openState.active

\* The title the specification's algorithm gives for the fields of w.
ClaimedTitle(w) ==
    IF w.saved THEN w.savedTitle
    ELSE LET items == w.tabItems.list
             a == FirstIndex({i \in 1..Len(items) : IsOpenActive(items[i])})
             o == FirstIndex({i \in 1..Len(items) : IsOpen(items[i])})
         IN  IF a # 0 THEN ItemTitle(items[a])
             ELSE IF o # 0 THEN ItemTitle(items[o])
             ELSE ""

\* C1 (as claimed): a first read of title returns savedTitle for a saved
\* window, else the title of the first open and active item, else the title of
\* the first open item, else the empty string.
C1_TitleResolution ==
    (last.op = "title" /\ last.pre._title = None) =>
        last.result = Return(ClaimedTitle(last.pre))

\* C4 (as claimed): title, id, the lookups, getActiveTabId, indexOf and the
\* derived fields of a TabItem never throw.
C4_TotalOperations ==
    last.op \in {"title", "id", "findChromeTabId", "findChromeBookmarkId",
                 "getActiveTabId", "indexOf", "derived"} =>
        last.result.kind = "return"

OpenTabIdsDistinct(items) ==
    \A i, j \in 1..Len(items) :
        (/\ i # j
         /\ items[i].open /\ items[i].openState # Null
         /\ items[j].open /\ items[j].openState # Null)
        => items[i].openState.openTabId # items[j].openState.openTabId

\* C7: when the open items of a window have distinct tab ids,
\* findChromeTabId(tabId) returns the 0-based index and the item of the open
\* item with that id, and null exactly when no open item has it.
C7_FindChromeTabId ==
    (last.op = "findChromeTabId" /\ OpenTabIdsDistinct(last.pre.tabItems.list)) =>
        LET items == last.pre.tabItems.list
            M == {i \in 1..Len(items) :
                    /\ items[i].open
                    /\ items[i].openState # Null
                    /\ items[i].openState.openTabId = last.arg}
        IN  IF M = {} THEN last.result = Return(None)
            ELSE \E i \in M : last.result = Return(<<i - 1, items[i]>>)

\* C7 witness: the open tab with the id is found at index 1, behind a closed
\* item that still carries an OpenTabState with the same id.
C7_Witness ==
    /\ last.op = "findChromeTabId"
    /\ OpenTabIdsDistinct(last.pre.tabItems.list)
    /\ Len(last.pre.tabItems.list) >= 2
    /\ ~last.pre.tabItems.list[1].open
    /\ last.pre.tabItems.list[1].openState # Null
    /\ last.pre.tabItems.list[1].openState.openTabId = last.arg
    /\ last.result = Return(<<1, last.pre.tabItems.list[2]>>)

(***************************************************************************)
(* Window flags: isExpanded and id over one window without tabs            *)
(***************************************************************************)
FlagWindows ==
    {NewTabWindow([saved |-> s, savedTitle |-> st, savedFolderId |-> f,
                   open |-> o, openWindowId |-> 7, expanded |-> e]) :
        s \in BOOLEAN, st \in SavedTitles, f \in {"42", "43"},
        o \in BOOLEAN, e \in {None, Some(TRUE), Some(FALSE)}}

InitFlags ==
    /\ item = defaultTabItemProps
    /\ heap \in {<<w>> : w \in FlagWindows}
    /\ ret = 0
    /\ last = NoCall

NextFlags ==
    \/ \E expandAll \in BOOLEAN : IsExpanded(1, expandAll)
    \/ ReadId(1)
    \/ ReadTitle(1)

SpecFlags == InitFlags /\ [][NextFlags]_vars

\* C8: isExpanded is (expandAll and open) when the window's expanded is null,
\* and the window's own expanded value otherwise.
C8_IsExpanded ==
    last.op = "isExpanded" =>
        IF last.pre.expanded = None
        THEN last.result.value = (last.arg /\ last.pre.open)
        ELSE last.result.value = last.pre.expanded[1]

\* C8 witness: a closed window with expanded unset is asked under expandAll.
C8_Witness ==
    /\ last.op = "isExpanded"
    /\ last.pre.expanded = None
    /\ last.arg
    /\ ~last.pre.open
    /\ last.result.value = FALSE

(***************************************************************************)
(* Updates: a receiver at heap[1] and the instance an update returned      *)
(***************************************************************************)
\* What Record.set builds: an object of the same class with the new values,
\* whose own slots _title and _id do not exist yet.
MakeRecordKeepsSlots(likeRecord, values) == values

MakeRecord(likeRecord, values) ==
    [values EXCEPT !._title = None, !._id = None]

\* Record.set(field, value): None when the value is the one the record holds
\* (set returns this), the new record otherwise.
RecordSet(w, field, value, same) ==
    IF same THEN None ELSE Some(MakeRecord(w, [w EXCEPT ![field] = value]))

\* delete this._title
DeleteTitle(w) == [w EXCEPT !._title = None]

\* updateSavedTitle(title) on heap[1]. The returned instance is heap[ret].
UpdateSavedTitle(title) ==
    /\ Len(heap) >= 1
    /\ LET w == DeleteTitle(heap[1])
           r == RecordSet(w, "savedTitle", title, title = w.savedTitle)
       IN  /\ heap' = <<w>> \o r
           /\ ret' = IF r = None THEN 1 ELSE 2
    /\ last' = Call("updateSavedTitle", 1, title, Return(ret'), "none", heap[1])
    /\ UNCHANGED item

\* setTabItems(nextItems) on heap[1]; same says that nextItems is the very
\* list the receiver holds (null is always the same as null).
SetTabItems(nextItems, same) ==
    /\ Len(heap) >= 1
    /\ same => nextItems = heap[1].tabItems
    /\ (nextItems = Null /\ heap[1].tabItems = Null) => same
    /\ LET w == heap[1]
           r == RecordSet(w, "tabItems", nextItems, same)
       IN  /\ heap' = <<w>> \o r
           /\ ret' = IF r = None THEN 1 ELSE 2
    /\ last' = Call("setTabItems", 1, nextItems, Return(ret'),
                    IF nextItems = Null THEN "error" ELSE "none", heap[1])
    /\ UNCHANGED item

\* The caller keeps only the returned instance and goes on with it.
Rebind ==
    /\ ret = 2
    /\ heap' = <<heap[2]>>
    /\ ret' = 0
    /\ last' = Call("rebind", 2, None, Return(None), "none", None)
    /\ UNCHANGED item

\* Open, unsaved tabs with both flags and states in agreement.
UpdateItems ==
    {t \in WinItems : ~t.saved /\ t.open /\ t.openState # Null}

UpdateLists == {List(items) : items \in SeqsUpTo(UpdateItems, MaxUpdateItems)}

UpdateWindows ==
    {NewTabWindow([saved |-> s, savedTitle |-> st, tabItems |-> l]) :
        s \in BOOLEAN, st \in SavedTitles, l \in UpdateLists}

InitUpdate ==
    /\ item = defaultTabItemProps
    /\ heap \in {<<w>> : w \in UpdateWindows}
    /\ ret = 0
    /\ last = NoCall

NextUpdate ==
    \/ \E i \in 1..Len(heap) : ReadTitle(i)
    \/ \E title \in SavedTitles : UpdateSavedTitle(title)
    \/ \E nextItems \in UpdateLists \cup {Null}, same \in BOOLEAN :
          SetTabItems(nextItems, same)
    \/ Rebind

SpecUpdate == InitUpdate /\ [][NextUpdate]_vars

(***************************************************************************)
(* Update claims, checked under SpecUpdate                                 *)
(***************************************************************************)
\* C2 (as claimed): after w2 = w.updateSavedTitle(X), for every window w, a
\* read of w2.title gives X and a read of w.title gives what it gave before
\* the call.
C2_UpdateSavedTitle ==
    last.op = "updateSavedTitle" =>
        /\ TitleGet(heap[ret]) = Return(last.arg)
        /\ TitleGet(heap[1]) = TitleGet(last.pre)

\* C2 (amended): after w2 = w.updateSavedTitle(X), a read of w2.title gives X
\* when w is a saved window, and for every window w a read of w.title gives
\* what it gave before the call.
C2_UpdateSavedTitleOfSaved ==
    last.op = "updateSavedTitle" =>
        /\ last.pre.saved => TitleGet(heap[ret]) = Return(last.arg)
        /\ TitleGet(heap[1]) = TitleGet(last.pre)

\* C2 witness: a saved window whose title had been read was given another
\* saved title; the old instance still reads its old title.
C2_Witness ==
    /\ last.op = "updateSavedTitle"
    /\ last.pre.saved
    /\ last.pre._title # None
    /\ last.arg # last.pre.savedTitle
    /\ ret = 2
    /\ TitleGet(heap[2]) = Return(last.arg)
    /\ TitleGet(heap[1]) = Return(last.pre.savedTitle)

\* C5 (as claimed): setTabItems(null) logs a diagnostic, does not throw, and
\* the instance it returns does not have a null tabItems.
C5_SetTabItemsRejectsNull ==
    (last.op = "setTabItems" /\ last.arg = Null) =>
        /\ last.log # "none"
        /\ last.result.kind = "return"
        /\ heap[ret].tabItems # Null

\* C9: every live instance reads as its title what computeTitle gives for its
\* current fields; a filled _title slot is never stale.
C9_NoStaleTitle ==
    \A i \in 1..Len(heap) : TitleGet(heap[i]) = computeTitle(heap[i])

\* C9 witness: setTabItems returned a new instance for a window whose title
\* had been read, and both instances now hold different memoized titles.
C9_Witness ==
    /\ Len(heap) = 2
    /\ heap[1]._title # None
    /\ heap[2]._title # None
    /\ heap[1]._title # heap[2]._title
    /\ heap[1].tabItems # heap[2].tabItems

\* C10 (as claimed): updateSavedTitle and setTabItems leave the receiver's
\* fields and its _title slot as they were before the call.
C10_ReceiverUnchanged ==
    last.op \in {"updateSavedTitle", "setTabItems"} => heap[1] = last.pre

====
